---- MODULE Spec2Model ----
(***************************************************************************)
(* soft2d: packed ARGB colours, Image surfaces, and the blit engine        *)
(* (blit_same_size, blit_scale) reached through Surface::blit.             *)
(*                                                                         *)
(* IVec2 is a pair <<x, y>>.  Option<T> is <<>> (None) or <<v>> (Some(v)). *)
(* A u32 is the sequence of its four base-256 digits, most significant     *)
(* first, so that <<a, r, g, b>> is the word a*2^24 + r*2^16 + g*2^8 + b.  *)
(***************************************************************************)
EXTENDS Integers, Sequences, FiniteSets, TLC

VARIABLES src, dst, before, call, algo, reads, writes, panicked, calls, cx,
          fetched, shadow, window, frames, event, lastInput, pressedBefore

vars == <<src, dst, before, call, algo, reads, writes, panicked, calls, cx,
          fetched, shadow, window, frames, event, lastInput, pressedBefore>>

\* the variables of the surfaces and of Color
surfaceVars == <<src, dst, before, call, algo, reads, writes, panicked, calls, cx>>

\* the variables of the window and its event history
windowVars == <<window, frames, event, lastInput, pressedBefore>>

\* the variables of the Image get/set history
imageVars == <<fetched, shadow>>

(***************************************************************************)
(* Bounds of the model.                                                    *)
(***************************************************************************)
\* largest width and height of a surface
MaxDim == 2
\* number of operations applied to the destination in one behaviour
MaxCalls == 1
\* largest value of the frame counter between two FPS reports
MaxFrames == 2
\* largest distance of a source or destination position from the origin
MaxOff == 1

(***************************************************************************)
(* u32 arithmetic on base-256 digits.                                      *)
(***************************************************************************)
Bytes == 0..255

RECURSIVE ByteOr(_, _)
ByteOr(p, q) ==
    IF p = 0 THEN q
    ELSE IF q = 0 THEN p
    ELSE 2 * ByteOr(p \div 2, q \div 2) + (IF (p % 2) + (q % 2) > 0 THEN 1 ELSE 0)

\* `x as u32` for x: u8
U32OfU8(x) == <<0, 0, 0, x>>

\* `v << n` on u32, n a multiple of 8: digits move up, the top ones fall off
Shl(v, n) == [i \in 1..4 |-> IF i + (n \div 8) <= 4 THEN v[i + (n \div 8)] ELSE 0]

\* `v >> n` on u32, n a multiple of 8
Shr(v, n) == [i \in 1..4 |-> IF i - (n \div 8) >= 1 THEN v[i - (n \div 8)] ELSE 0]

\* `v | w` on u32
BitOr(v, w) == [i \in 1..4 |-> ByteOr(v[i], w[i])]

\* `v as u8`: the low digit
U8OfU32(v) == v[4]

\* the u32 of a number below 2^31, and the number of a u32 below 2^31
U32OfInt(n) == <<n \div (2^24), (n \div (2^16)) % 256, (n \div 256) % 256, n % 256>>

IntOfU32(v) == v[1] * (2^24) + v[2] * (2^16) + v[3] * 256 + v[4]

\* digit i of v, counted from the least significant (i = 0); 0 beyond the word
Digit(v, i) == IF i >= 0 /\ i <= 3 THEN v[4 - i] ELSE 0

\* the sum of the digit products of v * w that fall in column k
Column(v, w, k) ==
    Digit(v, 0) * Digit(w, k) + Digit(v, 1) * Digit(w, k - 1)
        + Digit(v, 2) * Digit(w, k - 2) + Digit(v, 3) * Digit(w, k - 3)

\* the carry into column k of the schoolbook product v * w
RECURSIVE CarryInto(_, _, _)
CarryInto(v, w, k) ==
    IF k = 0 THEN 0 ELSE (Column(v, w, k - 1) + CarryInto(v, w, k - 1)) \div 256

\* digit k (from the least significant) of the full 64-bit product v * w
ProductDigit(v, w, k) == (Column(v, w, k) + CarryInto(v, w, k)) % 256

\* `v * w` on u32 as a release build computes it: the low 32 bits
WrappingMul(v, w) == [i \in 1..4 |-> ProductDigit(v, w, 4 - i)]

\* `v * w` on u32 overflows: some bit above the low 32 is set
MulOverflows(v, w) == \E k \in 4..7 : ProductDigit(v, w, k) # 0

(***************************************************************************)
(* Color (core/color.rs).  A Color is the u32 it wraps.                    *)
(***************************************************************************)
\* from_rgba with the red and green shifts exchanged
from_rgba_swapped(r, g, b, al) ==
    BitOr(BitOr(BitOr(Shl(U32OfU8(al), 24), Shl(U32OfU8(r), 8)),
                Shl(U32OfU8(g), 16)),
          U32OfU8(b))

from_rgba(r, g, b, al) ==
    BitOr(BitOr(BitOr(Shl(U32OfU8(al), 24), Shl(U32OfU8(r), 16)),
                Shl(U32OfU8(g), 8)),
          U32OfU8(b))

from_rgb(r, g, b) == from_rgba(r, g, b, 255)

as_u32(c) == c

from_u32(v) == v

Color_a(c) == U8OfU32(Shr(c, 24))

RED == from_rgb(255, 0, 0)
GREEN == from_rgb(0, 255, 0)
\* a colour with partial alpha and one with alpha 0 (neither is a named
\* constant of the library; both are built with from_rgba)
HALF == from_rgba(0, 0, 255, 128)
CLEARPX == from_rgba(255, 255, 255, 0)

BLUE == from_rgb(0, 0, 255)

SrcPalette == <<CLEARPX, HALF, RED>>

DstFill == {GREEN, BLUE}

ClearColors == {CLEARPX, HALF, RED, GREEN}

(***************************************************************************)
(* Option and IVec2.                                                       *)
(***************************************************************************)
None == <<>>

Some(v) == <<v>>

unwrap_or(o, d) == IF o = None THEN d ELSE o[1]

ivec2(x, y) == <<x, y>>

ZERO == ivec2(0, 0)

(***************************************************************************)
(* Image (image.rs) and the Surface primitives it implements.              *)
(* pixels is the boxed slice, slot k of the slice being pixels[k + 1].     *)
(***************************************************************************)
\* Image::new: `vec![color.as_u32(); (width * height) as usize]`, the product
\* taken in u32 (wrapping where overflow is not checked)
Image_new(width, height, color) ==
    [pixels |-> [k \in 1..IntOfU32(WrappingMul(U32OfInt(width), U32OfInt(height)))
                    |-> as_u32(color)],
     size |-> ivec2(width, height)]

\* image.rs 12 in a build with overflow checks: `width * height` panics
NewOverflows(width, height) == MulOverflows(U32OfInt(width), U32OfInt(height))

\* Surface::index
index(pos, width) == pos[2] * width + pos[1]

size(img) == img.size

\* slice indexing `pixels[i as usize]`: a negative i becomes a huge usize,
\* so the bounds check passes exactly for 0 <= i < len
InSlice(img, i) == i >= 0 /\ i < Len(img.pixels)

\* Image::get_pixel: the colour read, or a panic of the slice index
get_pixel(img, pos) ==
    IF InSlice(img, index(pos, img.size[1]))
    THEN [panic |-> FALSE, color |-> from_u32(img.pixels[index(pos, img.size[1]) + 1])]
    ELSE [panic |-> TRUE, color |-> from_u32(<<0, 0, 0, 0>>)]

\* Image::set_pixel: the image after the store, or a panic of the slice index
set_pixel(img, pos, color) ==
    IF InSlice(img, index(pos, img.size[1]))
    THEN [panic |-> FALSE,
          img |-> [img EXCEPT !.pixels[index(pos, img.size[1]) + 1] = as_u32(color)]]
    ELSE [panic |-> TRUE, img |-> img]

\* position pos lies inside [0, width) x [0, height) of img
InBounds(img, pos) ==
    pos[1] >= 0 /\ pos[1] < img.size[1] /\ pos[2] >= 0 /\ pos[2] < img.size[2]

Positions(img) == {ivec2(x, y) : x \in 0..(img.size[1] - 1), y \in 0..(img.size[2] - 1)}

(***************************************************************************)
(* The running state of one blit: the destination so far, the positions    *)
(* get_pixel was issued at on the source, the positions set_pixel was      *)
(* issued at on the destination, and whether a slice index panicked.       *)
(***************************************************************************)
Start(d) == [img |-> d, reads |-> {}, writes |-> {}, panicked |-> FALSE]

\* the alpha-key test taken as `src_color.a() == 0xFF`
OpaqueOnlyFull(color) == Color_a(color) = 255

\* the alpha-key test `src_color.a() != 0x00`
Opaque(color) == Color_a(color) # 0

\* blit.rs 28-31 and 62-65: read the source pixel, store it unless alpha is 0
CopyPixel(acc, s, sp, dp) ==
    LET got == get_pixel(s, sp)
        put == set_pixel(acc.img, dp, got.color)
    IN  IF got.panic
        THEN [acc EXCEPT !.reads = @ \cup {sp}, !.panicked = TRUE]
        ELSE IF ~Opaque(got.color)
        THEN [acc EXCEPT !.reads = @ \cup {sp}]
        ELSE [img |-> put.img,
              reads |-> acc.reads \cup {sp},
              writes |-> acc.writes \cup {dp},
              panicked |-> put.panic]

\* the clip test with the upper bound off by one, `v < 0 || v > n`
ClippedLoose(v, n) == v < 0 \/ v > n

\* `v < 0 || v >= n`, the clip test of blit.rs
Clipped(v, n) == v < 0 \/ v >= n

\* blit.rs 19-32: the columns of one row of blit_same_size, from column x on
RECURSIVE SameCols(_, _, _, _, _, _, _)
SameCols(acc, s, src_pos, dst_pos, sz, y, x) ==
    IF acc.panicked \/ x >= sz[1] THEN acc
    ELSE IF Clipped(dst_pos[1] + x, size(acc.img)[1])
            \/ Clipped(src_pos[1] + x, size(s)[1])
    THEN SameCols(acc, s, src_pos, dst_pos, sz, y, x + 1)
    ELSE SameCols(CopyPixel(acc, s, ivec2(src_pos[1] + x, src_pos[2] + y),
                            ivec2(dst_pos[1] + x, dst_pos[2] + y)),
                  s, src_pos, dst_pos, sz, y, x + 1)

\* blit.rs 10-33: the rows of blit_same_size, from row y on
RECURSIVE SameRows(_, _, _, _, _, _)
SameRows(acc, s, src_pos, dst_pos, sz, y) ==
    IF acc.panicked \/ y >= sz[2] THEN acc
    ELSE IF Clipped(dst_pos[2] + y, size(acc.img)[2])
            \/ Clipped(src_pos[2] + y, size(s)[2])
    THEN SameRows(acc, s, src_pos, dst_pos, sz, y + 1)
    ELSE SameRows(SameCols(acc, s, src_pos, dst_pos, sz, y, 0),
                  s, src_pos, dst_pos, sz, y + 1)

\* blit_same_size with the row loop started at 1
blit_same_size_from1(d, s, src_pos, dst_pos, sz) ==
    SameRows(Start(d), s, src_pos, dst_pos, sz, 1)

blit_same_size(d, s, src_pos, dst_pos, sz) ==
    SameRows(Start(d), s, src_pos, dst_pos, sz, 0)

(***************************************************************************)
(* f32 arithmetic of blit_scale (blit.rs 48, 49, 55, 61), bit-exact for    *)
(* the values that occur: non-negative, never subnormal.  A finite f32 is  *)
(* [k |-> "fin", m, e] with value m * 2^e, where m = 0 or                  *)
(* 2^23 <= m < 2^24 (24 significant bits); k is "inf" or "nan" otherwise.  *)
(* Every operation rounds to nearest, ties to even, as IEEE 754 does.      *)
(***************************************************************************)
I32_MAX == 2^31 - 1

Hidden == 2^23

Top == 2^24

Fin(m, e) == [k |-> "fin", m |-> m, e |-> e]

F32Zero == Fin(0, 0)

\* q significant bits with remainder r out of 2 * half, at exponent e
RoundEven(q, r, half, e) ==
    LET up == IF r > half \/ (r = half /\ q % 2 = 1) THEN q + 1 ELSE q
    IN  IF up = Top THEN Fin(Hidden, e + 1) ELSE Fin(up, e)

RECURSIVE ShiftUp(_, _)
ShiftUp(m, e) == IF m >= Hidden THEN Fin(m, e) ELSE ShiftUp(2 * m, e - 1)

RECURSIVE ExcessBits(_, _)
ExcessBits(n, k) == IF n \div (2^k) < Top THEN k ELSE ExcessBits(n, k + 1)

\* `n as f32` for an i32 n >= 0: exact below 2^24, rounded above
F32OfI32(n) ==
    IF n = 0 THEN F32Zero
    ELSE IF n < Top THEN ShiftUp(n, 0)
    ELSE LET k == ExcessBits(n, 1)
         IN  RoundEven(n \div (2^k), n % (2^k), 2^(k - 1), k)

\* n more quotient bits of the long division by mb, from quotient q, remainder r
RECURSIVE LongDiv(_, _, _, _)
LongDiv(q, r, mb, n) ==
    IF n = 0 THEN <<q, r>>
    ELSE IF 2 * r >= mb THEN LongDiv(2 * q + 1, 2 * r - mb, mb, n - 1)
    ELSE LongDiv(2 * q, 2 * r, mb, n - 1)

\* `x / y` on f32, x >= 0, y >= 0
F32Div(x, y) ==
    IF y.m = 0 THEN (IF x.m = 0 THEN [k |-> "nan", m |-> 0, e |-> 0]
                     ELSE [k |-> "inf", m |-> 0, e |-> 0])
    ELSE IF x.m = 0 THEN F32Zero
    ELSE LET n == IF x.m >= y.m THEN 23 ELSE 24
             qr == LongDiv(x.m \div y.m, x.m % y.m, y.m, n)
         IN  RoundEven(qr[1], 2 * qr[2], y.m, x.e - y.e - n)

\* `x * y` on f32, x >= 0, y >= 0: the 48-bit product of the significands is
\* hi * 2^24 + lo, assembled from 12-bit halves
F32Mul(x, y) ==
    IF x.k = "nan" \/ y.k = "nan" THEN [k |-> "nan", m |-> 0, e |-> 0]
    ELSE IF x.k = "inf" \/ y.k = "inf"
    THEN (IF (x.k = "fin" /\ x.m = 0) \/ (y.k = "fin" /\ y.m = 0)
          THEN [k |-> "nan", m |-> 0, e |-> 0]
          ELSE [k |-> "inf", m |-> 0, e |-> 0])
    ELSE IF x.m = 0 \/ y.m = 0 THEN F32Zero
    ELSE LET x1 == x.m \div 4096
             x0 == x.m % 4096
             y1 == y.m \div 4096
             y0 == y.m % 4096
             mid == x1 * y0 + x0 * y1
             los == x0 * y0 + (mid % 4096) * 4096
             lo == los % Top
             hi == x1 * y1 + (mid \div 4096) + (los \div Top)
         IN  IF hi >= Hidden
             THEN RoundEven(hi, lo, Hidden, x.e + y.e + 24)
             ELSE RoundEven(2 * hi + (lo \div Hidden), lo % Hidden, Hidden \div 2,
                            x.e + y.e + 23)

\* `x as i32` for x >= 0: truncates, saturates, NaN becomes 0
I32OfF32(x) ==
    IF x.k = "nan" THEN 0
    ELSE IF x.k = "inf" THEN I32_MAX
    ELSE IF x.e >= 8 /\ x.m > 0 THEN I32_MAX
    ELSE IF x.e >= 0 THEN x.m * (2^(x.e))
    ELSE IF x.e <= -24 THEN 0
    ELSE x.m \div (2^(0 - x.e))

\* blit.rs 48-49: `src_size.x as f32 / dst_size.x as f32`
Step(src_len, dst_len) == F32Div(F32OfI32(src_len), F32OfI32(dst_len))

\* blit.rs 55, 61: `(x as f32 * step_x) as i32`
Sample(x, step) == I32OfF32(F32Mul(F32OfI32(x), step))

\* blit.rs 56-66: the columns of one row of blit_scale, from column x on.
\* Columns left of the destination all `continue`, so the loop is advanced
\* to the first column inside it; once a column is right of the destination
\* every later one `continue`s as well.
RECURSIVE ScaleCols(_, _, _, _, _, _, _, _, _)
ScaleCols(acc, s, src_pos, dst_pos, dst_size, step_x, y, src_offset_y, x) ==
    IF acc.panicked \/ x >= dst_size[1] THEN acc
    ELSE IF dst_pos[1] + x < 0
    THEN ScaleCols(acc, s, src_pos, dst_pos, dst_size, step_x, y, src_offset_y,
                   0 - dst_pos[1])
    ELSE IF dst_pos[1] + x >= size(acc.img)[1] THEN acc
    ELSE ScaleCols(CopyPixel(acc, s,
                             ivec2(src_pos[1] + Sample(x, step_x), src_offset_y),
                             ivec2(dst_pos[1] + x, dst_pos[2] + y)),
                   s, src_pos, dst_pos, dst_size, step_x, y, src_offset_y, x + 1)

\* blit.rs 50-67: the rows of blit_scale, from row y on, advanced over the
\* rows outside the destination in the same way
RECURSIVE ScaleRows(_, _, _, _, _, _, _, _)
ScaleRows(acc, s, src_pos, dst_pos, dst_size, step_x, step_y, y) ==
    IF acc.panicked \/ y >= dst_size[2] THEN acc
    ELSE IF dst_pos[2] + y < 0
    THEN ScaleRows(acc, s, src_pos, dst_pos, dst_size, step_x, step_y, 0 - dst_pos[2])
    ELSE IF dst_pos[2] + y >= size(acc.img)[2] THEN acc
    ELSE ScaleRows(ScaleCols(acc, s, src_pos, dst_pos, dst_size, step_x, y,
                             src_pos[2] + Sample(y, step_y), 0),
                   s, src_pos, dst_pos, dst_size, step_x, step_y, y + 1)

blit_scale(d, s, src_pos, src_size, dst_pos, dst_size) ==
    ScaleRows(Start(d), s, src_pos, dst_pos, dst_size,
              Step(src_size[1], dst_size[1]), Step(src_size[2], dst_size[2]), 0)

(***************************************************************************)
(* Surface::blit and Surface::clear (core/surface.rs), Image::clear.       *)
(***************************************************************************)
\* the dispatch with the sizes compared on x only
DispatchOnWidth(src_size, dst_size) ==
    IF dst_size # None
    THEN (IF dst_size[1][1] = src_size[1]
          THEN [algo |-> "same_size", size |-> dst_size[1]]
          ELSE [algo |-> "scale", size |-> dst_size[1]])
    ELSE [algo |-> "same_size", size |-> src_size]

\* surface.rs 35-43: which algorithm runs, and on which rectangle
Dispatch(src_size, dst_size) ==
    IF dst_size # None
    THEN (IF dst_size[1] = src_size
          THEN [algo |-> "same_size", size |-> dst_size[1]]
          ELSE [algo |-> "scale", size |-> dst_size[1]])
    ELSE [algo |-> "same_size", size |-> src_size]

blit(d, s, src_pos, src_size, dst_pos, dst_size) ==
    LET sp == unwrap_or(src_pos, ZERO)
        ss == unwrap_or(src_size, size(s))
        dp == unwrap_or(dst_pos, ZERO)
        how == Dispatch(ss, dst_size)
    IN  [algo |-> how.algo,
         acc |-> IF how.algo = "same_size"
                 THEN blit_same_size(d, s, sp, dp, how.size)
                 ELSE blit_scale(d, s, sp, ss, dp, how.size)]

\* surface.rs 12-19: the default clear, a set_pixel per position, row-major
RECURSIVE ClearFrom(_, _, _, _)
ClearFrom(acc, color, y, x) ==
    IF acc.panicked \/ y >= size(acc.img)[2] THEN acc
    ELSE IF x >= size(acc.img)[1] THEN ClearFrom(acc, color, y + 1, 0)
    ELSE LET put == set_pixel(acc.img, ivec2(x, y), color)
         IN  ClearFrom([img |-> put.img,
                        reads |-> acc.reads,
                        writes |-> acc.writes \cup {ivec2(x, y)},
                        panicked |-> put.panic],
                       color, y, x + 1)

clear(d, color) == ClearFrom(Start(d), color, 0, 0)

\* a fill that stops one slot short of the end of the slice
Image_clear_short(d, color) ==
    [d EXCEPT !.pixels = [k \in DOMAIN d.pixels |->
                             IF k < Len(d.pixels) THEN as_u32(color) ELSE d.pixels[k]]]

\* image.rs 46-48: `self.pixels.fill(color.as_u32())`
Image_clear(d, color) ==
    [d EXCEPT !.pixels = [k \in DOMAIN d.pixels |-> as_u32(color)]]

(***************************************************************************)
(* The inputs.                                                             *)
(***************************************************************************)
Dims == 0..MaxDim

\* a source image built by Image::new and a set_pixel per position, the
\* colour at (x, y) running through SrcPalette from seed
Pattern(width, height, seed) ==
    [pixels |-> [k \in 1..(width * height) |->
                    as_u32(SrcPalette[((((k - 1) % width) + 2 * ((k - 1) \div width)
                                        + seed) % 3) + 1])],
     size |-> ivec2(width, height)]

SrcImages == {Pattern(w, h, seed) : w \in Dims, h \in Dims, seed \in 0..1}

DstImages == {Image_new(w, h, c) : w \in Dims, h \in Dims, c \in DstFill}

Offsets == (0 - MaxOff)..MaxOff

\* a destination rectangle far wider than the destination surface, placed so
\* that one late column of it falls on the surface
WideSize == <<ivec2(82, 1), ivec2(2^24 + 4, 1)>>

WidePos == <<ivec2(0 - 41, 0), ivec2(0 - (2^24 + 3), 0)>>

\* source positions on the axes, every source size, every near destination
\* position and size, and the wide rectangles
SrcPosArgs == {None} \cup {Some(ivec2(x, y)) : x \in Offsets, y \in {0}}
                     \cup {Some(ivec2(x, y)) : x \in {0}, y \in Offsets}

SrcSizeArgs == {None} \cup {Some(ivec2(w, h)) : w \in Dims, h \in Dims}

DstPosArgs == {None} \cup {Some(ivec2(x, y)) : x \in Offsets, y \in Offsets}

DstSizeArgs == {None} \cup {Some(ivec2(w, h)) : w \in Dims, h \in Dims}

DstRectArgs == (DstPosArgs \X DstSizeArgs)
                   \cup {<<Some(WidePos[i]), Some(WideSize[i])>> : i \in 1..2}

NoCall == [op |-> "new", src_pos |-> None, src_size |-> None, dst_pos |-> None,
           dst_size |-> None, color |-> None]

NoEvent == [kind |-> "none", key |-> None, repeat |-> FALSE, pressed |-> FALSE,
            size |-> <<0, 0>>]

NoPixel == [panic |-> FALSE, color |-> <<0, 0, 0, 0>>]

NoColor == [op |-> "none", rgba |-> <<0, 0, 0, 0>>, word |-> <<0, 0, 0, 0>>,
            color |-> <<0, 0, 0, 0>>, alpha |-> 0, back |-> <<0, 0, 0, 0>>]

(***************************************************************************)
(* The surfaces: a source image and a destination image, and the calls of  *)
(* Surface::blit and clear on the destination.  before is the destination  *)
(* as the last call found it, call the last call and its arguments, reads  *)
(* and writes the get_pixel and set_pixel positions of the last call.      *)
(***************************************************************************)
Init ==
    /\ src \in SrcImages
    /\ dst \in DstImages
    /\ before = dst
    /\ call = NoCall
    /\ algo = "none"
    /\ reads = {}
    /\ writes = {}
    /\ panicked = FALSE
    /\ calls = 0
    /\ cx = NoColor
    /\ fetched = NoPixel
    /\ shadow = <<>>
    /\ window = None
    /\ frames = 0
    /\ event = NoEvent
    /\ lastInput = <<>>
    /\ pressedBefore = {}

Record(acc) ==
    /\ dst' = acc.img
    /\ reads' = acc.reads
    /\ writes' = acc.writes
    /\ panicked' = acc.panicked
    /\ before' = dst
    /\ calls' = calls + 1
    /\ UNCHANGED <<src, cx, imageVars, windowVars>>

\* dst.blit(&src, src_pos, src_size, dst_pos, dst_size)
BlitCall ==
    /\ ~panicked
    /\ calls < MaxCalls
    /\ \E sp \in SrcPosArgs, ss \in SrcSizeArgs, dr \in DstRectArgs :
          /\ call' = [op |-> "blit", src_pos |-> sp, src_size |-> ss, dst_pos |-> dr[1],
                      dst_size |-> dr[2], color |-> None]
          /\ algo' = blit(dst, src, sp, ss, dr[1], dr[2]).algo
          /\ Record(blit(dst, src, sp, ss, dr[1], dr[2]).acc)

\* the default Surface::clear on the destination
ClearCall ==
    /\ ~panicked
    /\ calls < MaxCalls
    /\ \E c \in ClearColors :
          /\ call' = [NoCall EXCEPT !.op = "clear", !.color = Some(c)]
          /\ algo' = "none"
          /\ Record(clear(dst, c))

\* Image::clear on the destination
ImageClearCall ==
    /\ ~panicked
    /\ calls < MaxCalls
    /\ \E c \in ClearColors :
          /\ call' = [NoCall EXCEPT !.op = "image_clear", !.color = Some(c)]
          /\ algo' = "none"
          /\ Record([Start(Image_clear(dst, c)) EXCEPT !.writes = Positions(dst)])

Next == BlitCall \/ ClearCall \/ ImageClearCall

Spec == Init /\ [][Next]_vars

(***************************************************************************)
(* The arguments of the last blit, with the defaults the specification     *)
(* names, and the pixel a position holds.                                  *)
(***************************************************************************)
IsBlit == call.op = "blit"

ArgSrcPos == IF call.src_pos = None THEN <<0, 0>> ELSE call.src_pos[1]

ArgSrcSize == IF call.src_size = None THEN src.size ELSE call.src_size[1]

ArgDstPos == IF call.dst_pos = None THEN <<0, 0>> ELSE call.dst_pos[1]

\* the rectangle iterated over: dst_size, or the source size when it is absent
ArgRect == IF call.dst_size = None THEN ArgSrcSize ELSE call.dst_size[1]

PixelAt(img, p) == img.pixels[p[2] * img.size[1] + p[1] + 1]

\* the offset of destination position p in the rectangle placed at ArgDstPos
OffsetOf(p) == <<p[1] - ArgDstPos[1], p[2] - ArgDstPos[2]>>

InRect(off, rect) ==
    off[1] >= 0 /\ off[1] < rect[1] /\ off[2] >= 0 /\ off[2] < rect[2]

\* the source position the code maps offset off to
MappedBy(off) ==
    IF algo = "same_size"
    THEN <<ArgSrcPos[1] + off[1], ArgSrcPos[2] + off[2]>>
    ELSE <<ArgSrcPos[1] + Sample(off[1], Step(ArgSrcSize[1], ArgRect[1])),
           ArgSrcPos[2] + Sample(off[2], Step(ArgSrcSize[2], ArgRect[2]))>>

\* the source position floor-based sampling maps offset off to
FloorMapped(off) ==
    <<ArgSrcPos[1] + ((off[1] * ArgSrcSize[1]) \div ArgRect[1]),
      ArgSrcPos[2] + ((off[2] * ArgSrcSize[2]) \div ArgRect[2])>>

(***************************************************************************)
(* C1.  Every get_pixel of a blit is at a position inside the source and   *)
(* every set_pixel at a position inside the destination.  blit_scale does  *)
(* not clip the sampled source position, so this fails.                    *)
(***************************************************************************)
C1_AccessesInBounds ==
    IsBlit => /\ \A q \in reads : InBounds(src, q)
              /\ \A p \in writes : InBounds(before, p)

(***************************************************************************)
(* C2.  Alpha key: after a blit that returned, a destination pixel that    *)
(* survives clipping keeps its previous colour when the source pixel       *)
(* mapped to it has alpha 0, and holds that source pixel verbatim when its *)
(* alpha is anything in 1..255.                                            *)
(***************************************************************************)
C2_AlphaKey ==
    (IsBlit /\ ~panicked) =>
        \A p \in Positions(before) :
           (InRect(OffsetOf(p), ArgRect) /\ InBounds(src, MappedBy(OffsetOf(p)))) =>
              LET c == PixelAt(src, MappedBy(OffsetOf(p)))
              IN  /\ c[1] = 0 => PixelAt(dst, p) = PixelAt(before, p)
                  /\ c[1] \in 1..255 => PixelAt(dst, p) = c

\* a scaled blit that skipped a pixel of alpha 0 and stored one of partial alpha
C2_Witness ==
    /\ IsBlit /\ algo = "scale" /\ ~panicked
    /\ \E q \in reads : InBounds(src, q) /\ PixelAt(src, q) = CLEARPX
    /\ \E p \in writes : PixelAt(dst, p) = HALF /\ PixelAt(before, p) # HALF

(***************************************************************************)
(* C3.  Same-size clipping: the same-size algorithm never panics, and a    *)
(* destination pixel is overwritten with the source pixel at the same      *)
(* offset exactly when the offset is in the rectangle, the source position *)
(* is inside the source and that pixel has non-zero alpha; every other     *)
(* destination pixel is untouched.                                         *)
(***************************************************************************)
C3_Hit(p) ==
    /\ InRect(OffsetOf(p), ArgRect)
    /\ InBounds(src, <<ArgSrcPos[1] + OffsetOf(p)[1], ArgSrcPos[2] + OffsetOf(p)[2]>>)
    /\ PixelAt(src, <<ArgSrcPos[1] + OffsetOf(p)[1], ArgSrcPos[2] + OffsetOf(p)[2]>>)[1] # 0

C3_SameSizeClipping ==
    (IsBlit /\ algo = "same_size") =>
        /\ ~panicked
        /\ dst.size = before.size
        /\ writes = {p \in Positions(before) : C3_Hit(p)}
        /\ \A p \in Positions(before) :
              PixelAt(dst, p) =
                 IF C3_Hit(p)
                 THEN PixelAt(src, <<ArgSrcPos[1] + OffsetOf(p)[1],
                                     ArgSrcPos[2] + OffsetOf(p)[2]>>)
                 ELSE PixelAt(before, p)

\* the quadrant case at the model's scale: a MaxDim x MaxDim source placed at
\* (-1, -1) on a MaxDim x MaxDim destination writes the overlap and no more
C3_Witness ==
    /\ IsBlit /\ algo = "same_size"
    /\ call.dst_pos = Some(<<0 - 1, 0 - 1>>) /\ call.src_pos = None
    /\ call.src_size = None /\ call.dst_size = None
    /\ src.size = <<MaxDim, MaxDim>> /\ before.size = <<MaxDim, MaxDim>>
    /\ writes # {}
    /\ \A p \in writes : p[1] < MaxDim - 1 /\ p[2] < MaxDim - 1
    /\ dst # before

(***************************************************************************)
(* C4.  Identity copy as stated: after blit(src, None, None, None, None)   *)
(* onto a destination of the source's size the destination equals the      *)
(* source.  Source pixels of alpha 0 are skipped, so this fails.           *)
(***************************************************************************)
IsIdentityBlit ==
    /\ IsBlit
    /\ call.src_pos = None /\ call.src_size = None
    /\ call.dst_pos = None /\ call.dst_size = None
    /\ before.size = src.size

C4_IdentityCopy == IsIdentityBlit => dst = src

(***************************************************************************)
(* C4, amended.  After such a blit the destination holds the source pixel  *)
(* at every position where the source has non-zero alpha and its previous  *)
(* colour at every position where the source has alpha 0.                  *)
(***************************************************************************)
C4_IdentityCopyKeyed ==
    IsIdentityBlit =>
        /\ ~panicked
        /\ dst.size = src.size
        /\ \A p \in Positions(src) :
              PixelAt(dst, p) = IF PixelAt(src, p)[1] # 0 THEN PixelAt(src, p)
                                ELSE PixelAt(before, p)

\* an identity blit of a source holding a transparent and a non-transparent pixel
C4_Witness ==
    /\ IsIdentityBlit
    /\ \E p \in Positions(src) : PixelAt(src, p)[1] = 0 /\ PixelAt(dst, p) = PixelAt(before, p)
    /\ \E p \in Positions(src) : PixelAt(src, p)[1] # 0 /\ PixelAt(dst, p) # PixelAt(before, p)

(***************************************************************************)
(* C5.  Scaled sampling: after a scaled blit that returned, a destination  *)
(* pixel at offset (x, y) of the destination rectangle holds the source    *)
(* pixel at src_pos + (floor(x * src_size.x / dst_size.x),                 *)
(* floor(y * src_size.y / dst_size.y)) when that pixel has non-zero alpha, *)
(* and every other destination pixel is unchanged.  The code samples with  *)
(* an f32 product whose rounding falls below the exact quotient, so this   *)
(* fails, already for blits whose source rectangle lies inside the source. *)
(***************************************************************************)
C5_Hit(p) ==
    /\ InRect(OffsetOf(p), ArgRect)
    /\ InBounds(src, FloorMapped(OffsetOf(p)))
    /\ PixelAt(src, FloorMapped(OffsetOf(p)))[1] # 0

\* the rectangle [src_pos, src_pos + src_size) lies inside the source
RectInSource ==
    /\ ArgSrcPos[1] >= 0 /\ ArgSrcPos[1] + ArgSrcSize[1] <= src.size[1]
    /\ ArgSrcPos[2] >= 0 /\ ArgSrcPos[2] + ArgSrcSize[2] <= src.size[2]

C5_ScaledSampling ==
    (IsBlit /\ algo = "scale" /\ ~panicked /\ RectInSource) =>
        \A p \in Positions(before) :
           PixelAt(dst, p) = IF C5_Hit(p) THEN PixelAt(src, FloorMapped(OffsetOf(p)))
                             ELSE PixelAt(before, p)

(***************************************************************************)
(* C6.  Zero-size no-op: a blit whose resolved src_size or given dst_size  *)
(* has a zero component stores nothing, does not panic and reads nothing   *)
(* outside the source.  A zero src_size with a non-zero dst_size runs the  *)
(* scaled algorithm with step 0, which reads and stores, so this fails.    *)
(***************************************************************************)
HasZero(v) == v[1] = 0 \/ v[2] = 0

C6_ZeroSizeNoOp ==
    (IsBlit /\ (HasZero(ArgSrcSize) \/ (call.dst_size # None /\ HasZero(call.dst_size[1])))) =>
        /\ writes = {}
        /\ dst = before
        /\ ~panicked
        /\ \A q \in reads : InBounds(src, q)

(***************************************************************************)
(* C7.  Dispatch: with the defaults resolved, an absent dst_size runs the  *)
(* same-size algorithm on the resolved src_size, a dst_size equal to the   *)
(* resolved src_size runs the same-size algorithm, and a dst_size that     *)
(* differs in either component runs the scaled algorithm on (src_pos,      *)
(* src_size, dst_pos, dst_size).                                           *)
(***************************************************************************)
Outcome == [img |-> dst, reads |-> reads, writes |-> writes, panicked |-> panicked]

C7_Dispatch ==
    IsBlit =>
        /\ call.dst_size = None =>
              /\ algo = "same_size"
              /\ Outcome = blit_same_size(before, src, ArgSrcPos, ArgDstPos, ArgSrcSize)
        /\ (call.dst_size # None /\ call.dst_size[1] = ArgSrcSize) =>
              /\ algo = "same_size"
              /\ Outcome = blit_same_size(before, src, ArgSrcPos, ArgDstPos,
                                          call.dst_size[1])
        /\ (call.dst_size # None /\ call.dst_size[1] # ArgSrcSize) =>
              /\ algo = "scale"
              /\ Outcome = blit_scale(before, src, ArgSrcPos, ArgSrcSize, ArgDstPos,
                                      call.dst_size[1])

\* a blit whose dst_size differs from the resolved src_size in one component
\* only, and which stored something
C7_Witness ==
    /\ IsBlit /\ algo = "scale"
    /\ call.src_size = None /\ call.dst_size # None
    /\ call.dst_size[1][1] = src.size[1] /\ call.dst_size[1][2] # src.size[2]
    /\ writes # {}

(***************************************************************************)
(* C8.  clear: after either clear every position reads back as the colour, *)
(* the size is unchanged, and Image::clear and the default clear leave the *)
(* same image.                                                             *)
(***************************************************************************)
IsClear == call.op \in {"clear", "image_clear"}

C8_Clear ==
    IsClear =>
        /\ ~panicked
        /\ dst.size = before.size
        /\ \A p \in Positions(dst) :
              get_pixel(dst, p) = [panic |-> FALSE, color |-> call.color[1]]
        /\ dst = Image_clear(before, call.color[1])
        /\ dst = clear(before, call.color[1]).img
        /\ writes = Positions(before)

\* Image::clear of a full-size destination with a colour it did not hold
C8_Witness ==
    /\ call.op = "image_clear"
    /\ before.size = <<MaxDim, MaxDim>>
    /\ dst # before
    /\ call.color[1] = CLEARPX

(***************************************************************************)
(* C10.  In a scaled blit with positive src_size and dst_size every source *)
(* position read lies in the rectangle [src_pos, src_pos + src_size), so   *)
(* that when the rectangle is inside the source nothing is read outside    *)
(* it.  `x as f32` rounds a column above 2^24 up to dst_size.x, the        *)
(* product reaches src_size.x, and this fails.                             *)
(***************************************************************************)
Positive(v) == v[1] > 0 /\ v[2] > 0

C10_SampleInRegion ==
    (IsBlit /\ algo = "scale" /\ Positive(ArgSrcSize) /\ Positive(ArgRect)) =>
        /\ \A q \in reads :
              /\ ArgSrcPos[1] <= q[1] /\ q[1] < ArgSrcPos[1] + ArgSrcSize[1]
              /\ ArgSrcPos[2] <= q[2] /\ q[2] < ArgSrcPos[2] + ArgSrcSize[2]
        /\ RectInSource => (~panicked /\ \A q \in reads : InBounds(src, q))

(***************************************************************************)
(* Color as a pure function: from_rgba of four channels, and from_u32 of   *)
(* a word, each followed by the conversions back.                          *)
(***************************************************************************)
ChanVals == {0, 1, 128, 255}

Words == {<<b3, b2, b1, b0>> : b3 \in {0, 255}, b2 \in {0, 7}, b1 \in {0, 128}, b0 \in {1, 254}}

InitColor ==
    /\ src = Image_new(0, 0, GREEN)
    /\ dst = Image_new(0, 0, GREEN)
    /\ before = dst
    /\ call = NoCall
    /\ algo = "none"
    /\ reads = {}
    /\ writes = {}
    /\ panicked = FALSE
    /\ calls = 0
    /\ cx = NoColor
    /\ fetched = NoPixel
    /\ shadow = <<>>
    /\ window = None
    /\ frames = 0
    /\ event = NoEvent
    /\ lastInput = <<>>
    /\ pressedBefore = {}

\* Color::from_rgba(r, g, b, al).as_u32(), then from_u32, a() and as_u32
PackCall ==
    \E r \in ChanVals, g \in ChanVals, b \in ChanVals, al \in ChanVals :
       /\ cx' = [op |-> "from_rgba",
                 rgba |-> <<r, g, b, al>>,
                 word |-> as_u32(from_rgba(r, g, b, al)),
                 color |-> from_u32(as_u32(from_rgba(r, g, b, al))),
                 alpha |-> Color_a(from_u32(as_u32(from_rgba(r, g, b, al)))),
                 back |-> as_u32(from_u32(as_u32(from_rgba(r, g, b, al))))]
       /\ UNCHANGED <<src, dst, before, call, algo, reads, writes, panicked, calls,
                      imageVars, windowVars>>

\* Color::from_u32(v), then a() and as_u32
WordCall ==
    \E v \in Words :
       /\ cx' = [op |-> "from_u32",
                 rgba |-> <<0, 0, 0, 0>>,
                 word |-> v,
                 color |-> from_u32(v),
                 alpha |-> Color_a(from_u32(v)),
                 back |-> as_u32(from_u32(v))]
       /\ UNCHANGED <<src, dst, before, call, algo, reads, writes, panicked, calls,
                      imageVars, windowVars>>

NextColor == PackCall \/ WordCall

SpecColor == InitColor /\ [][NextColor]_vars

(***************************************************************************)
(* C9.  Packing round trip: from_rgba(r, g, b, a).as_u32() is the word     *)
(* a<<24 | r<<16 | g<<8 | b, whose base-256 digits are a, r, g, b;         *)
(* from_u32 of it is the same colour, a() returns a, and                   *)
(* from_u32(v).as_u32() is v for every word v.                             *)
(***************************************************************************)
C9_ColorRoundTrip ==
    /\ cx.op = "from_rgba" =>
          /\ cx.word = <<cx.rgba[4], cx.rgba[1], cx.rgba[2], cx.rgba[3]>>
          /\ cx.color = from_rgba(cx.rgba[1], cx.rgba[2], cx.rgba[3], cx.rgba[4])
          /\ cx.alpha = cx.rgba[4]
          /\ cx.back = cx.word
    /\ cx.op = "from_u32" =>
          /\ cx.back = cx.word
          /\ cx.alpha = cx.word[1]

\* four different channel values packed and the alpha read back
C9_Witness ==
    /\ cx.op = "from_rgba"
    /\ cx.rgba = <<255, 128, 1, 0>>
    /\ cx.word = <<0, 255, 128, 1>>
    /\ cx.alpha = 0

(***************************************************************************)
(* Image as a store: Image::new, then set_pixel and get_pixel at in-bounds *)
(* positions.  dst is the image, shadow the colour each position should    *)
(* hold (the colour of the last set_pixel there, or the colour given to    *)
(* Image::new), fetched the result of the last get_pixel.                  *)
(***************************************************************************)
\* the sizes given to Image::new: the small ones, and 65536 x 65536, whose
\* pixel count 2^32 does not fit the u32 of `width * height`
ImageSizes == (Dims \X Dims) \cup {<<2^16, 2^16>>}

\* the in-bounds positions the calls are made at
Probes(img) ==
    {p \in {ivec2(x, y) : x \in 0..MaxDim, y \in 0..MaxDim} : InBounds(img, p)}

\* Image::new(w, h, c).  A build with overflow checks panics when w * h
\* overflows; one without wraps, and returns the image with the short slice.
InitImage ==
    \E wh \in ImageSizes, c \in DstFill, checks \in BOOLEAN :
       /\ dst = Image_new(wh[1], wh[2], c)
       /\ panicked = (checks /\ NewOverflows(wh[1], wh[2]))
       /\ shadow = [p \in Probes(Image_new(wh[1], wh[2], c)) |-> c]
       /\ before = dst
       /\ src = Image_new(0, 0, GREEN)
       /\ call = NoCall
       /\ algo = "none"
       /\ reads = {}
       /\ writes = {}
       /\ calls = 0
       /\ cx = NoColor
       /\ fetched = NoPixel
       /\ window = None
       /\ frames = 0
       /\ event = NoEvent
       /\ lastInput = <<>>
       /\ pressedBefore = {}

\* image.set_pixel(p, c) at an in-bounds p
SetPixelCall ==
    /\ ~panicked
    /\ \E p \in Probes(dst), c \in {SrcPalette[i] : i \in 1..3} :
          /\ dst' = set_pixel(dst, p, c).img
          /\ panicked' = set_pixel(dst, p, c).panic
          /\ shadow' = [shadow EXCEPT ![p] = c]
          /\ call' = [NoCall EXCEPT !.op = "set_pixel", !.dst_pos = Some(p),
                                    !.color = Some(c)]
          /\ before' = dst
          /\ writes' = {p}
          /\ reads' = {}
          /\ UNCHANGED <<src, algo, calls, cx, fetched, windowVars>>

\* image.get_pixel(p) at an in-bounds p
GetPixelCall ==
    /\ ~panicked
    /\ \E p \in Probes(dst) :
          /\ fetched' = get_pixel(dst, p)
          /\ panicked' = get_pixel(dst, p).panic
          /\ call' = [NoCall EXCEPT !.op = "get_pixel", !.dst_pos = Some(p)]
          /\ before' = dst
          /\ reads' = {p}
          /\ writes' = {}
          /\ UNCHANGED <<src, dst, algo, calls, cx, shadow, windowVars>>

NextImage == SetPixelCall \/ GetPixelCall

SpecImage == InitImage /\ [][NextImage]_vars

(***************************************************************************)
(* C11.  For an image made by Image::new(w, h, c), after any sequence of   *)
(* set_pixel calls at in-bounds positions, get_pixel at an in-bounds       *)
(* position returns the colour of the last set_pixel there, or c; a        *)
(* set_pixel changes no other in-bounds pixel and never the size, and the  *)
(* slice has w * h slots.  Image::new computes w * h in u32, so for        *)
(* 65536 x 65536 the slice is empty and this fails.                        *)
(***************************************************************************)
C11_GetReturnsLastSet ==
    /\ call.op = "get_pixel" =>
          fetched = [panic |-> FALSE, color |-> shadow[call.dst_pos[1]]]
    /\ call.op = "set_pixel" =>
          /\ ~panicked
          /\ dst.size = before.size
          /\ \A q \in Probes(dst) \ {call.dst_pos[1]} :
                get_pixel(dst, q) = get_pixel(before, q)

\* C11 for the images whose pixel count fits u32: there the claim holds
C11_WithoutOverflow ==
    ~NewOverflows(dst.size[1], dst.size[2]) =>
        /\ C11_GetReturnsLastSet
        /\ Len(dst.pixels) = dst.size[1] * dst.size[2]
        /\ \A p \in Probes(dst) : \A q \in Probes(dst) :
              p # q => index(p, dst.size[1]) # index(q, dst.size[1])

(***************************************************************************)
(* The window (window.rs): App::resumed, App::suspended and                *)
(* App::window_event.  window is App.window, an Option of the Window's     *)
(* size and key_pressed set; frames is App.frames.  event is the last      *)
(* event delivered, pressedBefore the key_pressed set it found, and        *)
(* lastInput, per key code, whether the last non-repeat KeyboardInput for  *)
(* it since the window was created was a press or a release.               *)
(***************************************************************************)
\* Config::default
DefaultWidth == 640

DefaultHeight == 480

KeyCodes == {"KeyA", "KeyB"}

\* PhysicalKey: Code(k) is Some(k), Unidentified is None
PhysicalKeys == {None} \cup {Some(k) : k \in KeyCodes}

\* the sizes a Resized event reports
ResizeDims == {0, 1, DefaultWidth}

Window_new(width, height) ==
    [size |-> ivec2(width, height), key_pressed |-> {}]

\* Window::resize: a zero width or height returns early
resize(win, width, height) ==
    IF width = 0 THEN win
    ELSE IF height = 0 THEN win
    ELSE [win EXCEPT !.size = ivec2(width, height)]

is_key_pressed(win, key) == key \in win.key_pressed

\* window.rs 194-202 with the repeat flag ignored
KeyboardInputAnyRepeat(win, key, repeat, pressed) ==
    IF key # None
    THEN (IF pressed THEN [win EXCEPT !.key_pressed = @ \cup {key[1]}]
          ELSE [win EXCEPT !.key_pressed = @ \ {key[1]}])
    ELSE win

\* window.rs 194-202: the KeyboardInput arm on an existing window
KeyboardInput(win, key, repeat, pressed) ==
    IF key # None
    THEN (IF ~repeat
          THEN (IF pressed THEN [win EXCEPT !.key_pressed = @ \cup {key[1]}]
                ELSE [win EXCEPT !.key_pressed = @ \ {key[1]}])
          ELSE win)
    ELSE win

PressedNow == IF window = None THEN {} ELSE window[1].key_pressed

InitWindow ==
    /\ window = None
    /\ frames = 0
    /\ event = NoEvent
    /\ lastInput = [k \in KeyCodes |-> "none"]
    /\ pressedBefore = {}
    /\ src = Image_new(0, 0, GREEN)
    /\ dst = Image_new(0, 0, GREEN)
    /\ before = dst
    /\ call = NoCall
    /\ algo = "none"
    /\ reads = {}
    /\ writes = {}
    /\ panicked = FALSE
    /\ calls = 0
    /\ cx = NoColor
    /\ fetched = NoPixel
    /\ shadow = <<>>

\* App::resumed; the debug_assert on an absent window is compiled out of a
\* release build, where a second resumed replaces the window
Resumed ==
    /\ window' = Some(Window_new(DefaultWidth, DefaultHeight))
    /\ frames' = 0
    /\ event' = [NoEvent EXCEPT !.kind = "resumed"]
    /\ lastInput' = [k \in KeyCodes |-> "none"]
    /\ pressedBefore' = PressedNow
    /\ UNCHANGED <<surfaceVars, imageVars>>

\* App::suspended; the debug_assert on a present window is compiled out of a
\* release build
Suspended ==
    /\ window' = None
    /\ event' = [NoEvent EXCEPT !.kind = "suspended"]
    /\ pressedBefore' = PressedNow
    /\ UNCHANGED <<frames, lastInput, surfaceVars, imageVars>>

\* WindowEvent::CloseRequested: event_loop.exit(), the App is not touched
CloseRequested ==
    /\ event' = [NoEvent EXCEPT !.kind = "close"]
    /\ pressedBefore' = PressedNow
    /\ UNCHANGED <<window, frames, lastInput, surfaceVars, imageVars>>

\* WindowEvent::Resized(size)
Resized ==
    \E w \in ResizeDims, h \in ResizeDims :
       /\ window' = IF window = None THEN None ELSE Some(resize(window[1], w, h))
       /\ event' = [NoEvent EXCEPT !.kind = "resized", !.size = <<w, h>>]
       /\ pressedBefore' = PressedNow
       /\ UNCHANGED <<frames, lastInput, surfaceVars, imageVars>>

\* WindowEvent::KeyboardInput
KeyboardInputEvent ==
    \E key \in PhysicalKeys, repeat \in BOOLEAN, pressed \in BOOLEAN :
       /\ window' = IF window = None THEN None
                    ELSE Some(KeyboardInput(window[1], key, repeat, pressed))
       /\ event' = [NoEvent EXCEPT !.kind = "keyboard", !.key = key,
                                   !.repeat = repeat, !.pressed = pressed]
       /\ lastInput' = IF window # None /\ key # None /\ ~repeat
                       THEN [lastInput EXCEPT ![key[1]] =
                                IF pressed THEN "press" ELSE "release"]
                       ELSE lastInput
       /\ pressedBefore' = PressedNow
       /\ UNCHANGED <<frames, surfaceVars, imageVars>>

\* WindowEvent::RedrawRequested: State::render cannot reach key_pressed (a
\* private field); the frame is counted and the counter reset with each FPS
\* report, second standing for spend_time having reached 1.0
RedrawRequested ==
    \E second \in BOOLEAN :
       /\ second \/ frames < MaxFrames
       /\ frames' = IF window = None THEN frames
                    ELSE IF second THEN 0 ELSE frames + 1
       /\ event' = [NoEvent EXCEPT !.kind = "redraw"]
       /\ pressedBefore' = PressedNow
       /\ UNCHANGED <<window, lastInput, surfaceVars, imageVars>>

NextWindow ==
    \/ Resumed
    \/ Suspended
    \/ CloseRequested
    \/ Resized
    \/ KeyboardInputEvent
    \/ RedrawRequested

SpecWindow == InitWindow /\ [][NextWindow]_vars

(***************************************************************************)
(* C12.  Key state: a window created by resumed reports no key pressed;    *)
(* while it lives, is_key_pressed(k) is true exactly when the last         *)
(* non-repeat KeyboardInput with physical key Code(k) was a press; repeat  *)
(* events, events for other keys, and Resized and RedrawRequested events   *)
(* leave the pressed state of k unchanged.                                 *)
(***************************************************************************)
C12_KeyState ==
    window # None =>
        /\ \A k \in KeyCodes :
              is_key_pressed(window[1], k) <=> (lastInput[k] = "press")
        /\ event.kind = "resumed" => window[1].key_pressed = {}
        /\ event.kind \in {"resized", "redraw", "close"} =>
              window[1].key_pressed = pressedBefore
        /\ (event.kind = "keyboard" /\ (event.repeat \/ event.key = None)) =>
              window[1].key_pressed = pressedBefore
        /\ event.kind = "keyboard" =>
              \A k \in KeyCodes :
                 event.key # Some(k) =>
                    (is_key_pressed(window[1], k) <=> k \in pressedBefore)

\* a repeat press of a released key arrives while another key is held: the
\* released key stays released
C12_Witness ==
    /\ window # None
    /\ event.kind = "keyboard" /\ event.repeat /\ event.pressed
    /\ event.key = Some("KeyA")
    /\ lastInput["KeyA"] = "release"
    /\ ~is_key_pressed(window[1], "KeyA")
    /\ is_key_pressed(window[1], "KeyB")

====
